---- MODULE Spec2Model ----
(***************************************************************************)
(* A model of rhix_converter's read_file (src/src/main.rs): the decoder of *)
(* one Furuno .rhix file into a silv::RadarFile.                           *)
(*                                                                         *)
(* The input file is revealed as it is read: `flen` is the length of the   *)
(* file, `file` the bytes of it the decoder has looked at so far, and each *)
(* read draws the next bytes from the input sets below.  Floating-point    *)
(* values are kept as exact fractions <<numerator, denominator>>; the      *)
(* rounding of f32/f64 is not modelled.                                    *)
(***************************************************************************)
EXTENDS Integers, Sequences, FiniteSets, TLC

\* ---------------------------------------------------------------- bounds
\* Largest gate count a header of the model carries.
MaxGates == 2
\* Largest number of bytes that follow the header.
MaxBody == 20

\* ------------------------------------------------------------ input sets
\* Values of the header-size field (the first u16 of the file).
HeaderSizes == {156, 155}
\* Start timestamps: a valid one (leap day) and two that chrono rejects.
StartTimes == { <<2024, 2, 29, 23, 59, 59>>, <<2023, 2, 29, 0, 0, 0>>, <<0, 0, 0, 0, 0, 0>> }
GateCounts == 0..MaxGates
GateResolutions == {150}
\* record_item: none, bit 9 only, REF, PHI, RHO+SW, quality, REF+quality.
RecordItems == {0, 512, 2, 32, 192, 256, 258}
AngleSizes == {6, 8}
AzimuthRaws == {0, 4500}
ElevationRaws == {9000, 65535}
SampleRaws == {32768, 32868, 65535}
BuildProfiles == {"debug", "release"}

\* --------------------------------------------------------------- helpers
Min(a, b) == IF a < b THEN a ELSE b

Take(s, n) == SubSeq(s, 1, Min(n, Len(s)))

Drop(s, n) == SubSeq(s, Min(n, Len(s)) + 1, Len(s))

RECURSIVE to_le_bytes(_, _)
\* The bytes of the non-negative integer v in a little-endian field of n bytes
\* (how the file's writer laid the value out).
to_le_bytes(v, n) ==
    IF n = 0 THEN << >> ELSE << v % 256 >> \o to_le_bytes(v \div 256, n - 1)

RECURSIVE from_le_bytes(_)
\* <$ty>::from_le_bytes for the unsigned types: the first byte is the lowest.
from_le_bytes(b) ==
    IF b = << >> THEN 0 ELSE b[1] + 256 * from_le_bytes(Tail(b))

size_of_mut(ty) ==
    CASE ty = "u8" -> 1
      [] ty \in {"u16", "i16"} -> 2
      [] ty \in {"u32", "i32"} -> 4
      [] ty = "u64" -> 4

\* std::mem::size_of::<$ty>()
size_of(ty) ==
    CASE ty = "u8" -> 1
      [] ty \in {"u16", "i16"} -> 2
      [] ty \in {"u32", "i32"} -> 4
      [] ty = "u64" -> 8

\* Two's complement reading of an unsigned value for the signed types.
as_type(u, ty) ==
    CASE ty = "i16" -> IF u >= 32768 THEN u - 65536 ELSE u
      [] ty = "i32" -> u   \* the inputs of the model keep i32 fields below 2^31
      [] OTHER -> u

\* readle!(reader, ty): read_exact of size_of(ty) bytes, unwrapped.  `d` is the
\* unread input; the result tells whether the read panicked (short input), the
\* value and the input left.
readle(d, ty) ==
    IF Len(d) < size_of(ty)
    THEN [ok |-> FALSE, val |-> 0, rest |-> d]
    ELSE [ok |-> TRUE,
          val |-> as_type(from_le_bytes(SubSeq(d, 1, size_of(ty))), ty),
          rest |-> Drop(d, size_of(ty))]

\* readle!(reader, u16, length): `length` u16 values, by chunks of two bytes.
readle_vec(d, length) ==
    IF Len(d) < 2 * length
    THEN [ok |-> FALSE, val |-> << >>, rest |-> d]
    ELSE [ok |-> TRUE,
          val |-> [i \in 1..length |-> from_le_bytes(SubSeq(d, 2 * i - 1, 2 * i))],
          rest |-> Drop(d, 2 * length)]

NamedTypes == {"R", "REF", "VEL", "ZDR", "KDP", "PHI", "RHO", "SW"}

read_data_mut_scale(v, data_type) ==
    CASE data_type \in {"R", "REF", "VEL", "ZDR", "KDP"} ->
            [panic |-> FALSE, val |-> << v - 32768, 10 >>]
      [] data_type = "PHI" -> [panic |-> FALSE, val |-> << 360 * (v - 32768), 65535 >>]
      [] data_type = "RHO" -> [panic |-> FALSE, val |-> << 2 * (v - 1), 65534 >>]
      [] data_type = "SW" -> [panic |-> FALSE, val |-> << v - 1, 100 >>]
      [] OTHER -> [panic |-> TRUE, val |-> << 0, 1 >>]

read_data_mut_phi(v, data_type) ==
    CASE data_type \in {"R", "REF", "VEL", "ZDR", "KDP"} ->
            [panic |-> FALSE, val |-> << v - 32768, 100 >>]
      [] data_type = "PHI" -> [panic |-> FALSE, val |-> << 360 * (v - 32768), 65536 >>]
      [] data_type = "RHO" -> [panic |-> FALSE, val |-> << 2 * (v - 1), 65534 >>]
      [] data_type = "SW" -> [panic |-> FALSE, val |-> << v - 1, 100 >>]
      [] OTHER -> [panic |-> TRUE, val |-> << 0, 1 >>]

\* read_data(v, data_type): the scaling law, as a fraction; any other name panics.
read_data(v, data_type) ==
    CASE data_type \in {"R", "REF", "VEL", "ZDR", "KDP"} ->
            [panic |-> FALSE, val |-> << v - 32768, 100 >>]
      [] data_type = "PHI" -> [panic |-> FALSE, val |-> << 360 * (v - 32768), 65535 >>]
      [] data_type = "RHO" -> [panic |-> FALSE, val |-> << 2 * (v - 1), 65534 >>]
      [] data_type = "SW" -> [panic |-> FALSE, val |-> << v - 1, 100 >>]
      [] OTHER -> [panic |-> TRUE, val |-> << 0, 1 >>]

RECURSIVE GCD(_, _)
GCD(a, b) == IF b = 0 THEN a ELSE GCD(b, a % b)

Abs(n) == IF n < 0 THEN -n ELSE n

\* A fraction with a positive denominator, in lowest terms.
Norm(a) ==
    LET g == GCD(Abs(a[1]), a[2]) IN << a[1] \div g, a[2] \div g >>

\* Equality of two fractions with positive denominators.
RatEq(a, b) == Norm(a) = Norm(b)

\* The whole part of a non-negative fraction, and its first three decimals.
Whole(a) == a[1] \div a[2]

Millis(a) == ((a[1] % a[2]) * 1000) \div a[2]

\* ------------------------------------------------------ the file's header
Zeros(n) == [i \in 1..n |-> 0]

\* The 156 bytes of a header as the instrument writes it, for the fields the
\* decoder uses (every other field is zero): header size at offset 0, start
\* time at 4, latitude at 26, longitude at 30, Nyquist velocity at 80, gate
\* count at 102, gate resolution at 104, record items at 136.
HeaderImage(h) ==
    to_le_bytes(h.header_size, 2) \o Zeros(2)
      \o to_le_bytes(h.start_time[1], 2)
      \o << h.start_time[2], h.start_time[3], h.start_time[4], h.start_time[5], h.start_time[6] >>
      \o Zeros(15)
      \o to_le_bytes(h.lat, 4) \o to_le_bytes(h.lon, 4) \o Zeros(46)
      \o to_le_bytes(h.nyquist, 2) \o Zeros(20)
      \o to_le_bytes(h.gates, 2) \o to_le_bytes(h.gate_res, 2) \o Zeros(30)
      \o to_le_bytes(h.record_item, 2) \o Zeros(18)

Headers ==
    [header_size : HeaderSizes, start_time : StartTimes, lat : {3512345},
     lon : {13912345}, nyquist : {480}, gates : GateCounts,
     gate_res : GateResolutions, record_item : RecordItems]

\* The header's fields in the order read_file reads them, each with the type
\* its readle! names.
HeaderFields ==
    << <<"header_size", "u16">>, <<"_version", "u16">>,
       <<"start_time.0", "u16">>, <<"start_time.1", "u8">>, <<"start_time.2", "u8">>,
       <<"start_time.3", "u8">>, <<"start_time.4", "u8">>, <<"start_time.5", "u8">>,
       <<"_pad_start", "u8">>,
       <<"_end_time.0", "u16">>, <<"_end_time.1", "u8">>, <<"_end_time.2", "u8">>,
       <<"_end_time.3", "u8">>, <<"_end_time.4", "u8">>, <<"_end_time.5", "u8">>,
       <<"_pad_end", "u8">>,
       <<"_timezone", "i16">>, <<"_productnumber", "u16">>, <<"_modeltype", "u16">>,
       <<"lat", "i32">>, <<"lon", "i32">>, <<"_alt", "i32">>,
       <<"_azi_offset", "u16">>, <<"_tx_freq", "u32">>, <<"_polarization", "u16">>,
       <<"_gain_h", "u16">>, <<"_gain_v", "u16">>,
       <<"_half_width_h", "u16">>, <<"_half_width_v", "u16">>,
       <<"_tx_power_h", "u16">>, <<"_tx_power_v", "u16">>,
       <<"_radar_const_h", "i16">>, <<"_radar_const_v", "i16">>,
       <<"_noise_power_h_short", "i16">>, <<"_noise_power_h_long", "i16">>,
       <<"_thresh_power_short", "i16">>, <<"_thresh_power_long", "i16">>,
       <<"_tx_pulse_spec", "u16">>, <<"_prf_mode", "u16">>,
       <<"_prf1", "u16">>, <<"_prf2", "u16">>, <<"_prf3", "u16">>,
       <<"nyquist", "u16">>, <<"_sample_num", "u16">>,
       <<"_tx_pulse_blind_len", "u16">>, <<"_short_pulse_width", "u16">>,
       <<"_short_pulse_mod_bandwith", "u16">>, <<"_long_pulse_width", "u16">>,
       <<"_long_pulse_mod_bandwidth", "u16">>, <<"_pulse_switchpoint", "u16">>,
       <<"_observation_mode", "u16">>, <<"_rotation_speed", "u16">>,
       <<"_rays", "u16">>, <<"gates", "u16">>, <<"gate_res", "u16">>,
       <<"_scan_num", "u16">>, <<"_total_scans", "u16">>,
       <<"_rain_intensity_est", "u16">>, <<"_zr_coeff_b", "u16">>,
       <<"_zr_coeff_beta", "u16">>, <<"_kdp_coeff_a", "u16">>,
       <<"_kdp_coeff_b", "u16">>, <<"_kdp_coeff_c", "u16">>,
       <<"_zh_corr", "u16">>, <<"_zh_corr_b1", "u16">>, <<"_zh_corr_b2", "u16">>,
       <<"_zh_corr_d1", "u16">>, <<"_zh_corr_d2", "u16">>,
       <<"_air_attenuation", "u16">>, <<"_rain_thresh", "u16">>,
       <<"record_item", "u16">>, <<"_signal_flag", "u16">>,
       <<"_clutter_ref_file.0", "u16">>, <<"_clutter_ref_file.1", "u8">>,
       <<"_clutter_ref_file.2", "u8">>, <<"_clutter_ref_file.3", "u8">>,
       <<"_clutter_ref_file.4", "u8">>, <<"_clutter_ref_file.5", "u8">>,
       <<"_pad_clutter", "u8">>, <<"_reserved", "u64">> >>

FieldIndex(name) == CHOOSE i \in 1..Len(HeaderFields) : HeaderFields[i][1] = name

RECURSIVE read_fields(_, _, _)
\* The reads of lines 52-155 in order, fields lo..hi: each readle! either
\* panics on a short input (ok = FALSE, and no later field is read) or yields
\* its value. The range is read as its first half, then its second half.
read_fields(d, lo, hi) ==
    IF lo = hi
    THEN LET r == readle(d, HeaderFields[lo][2])
         IN  [ok |-> r.ok, vals |-> IF r.ok THEN << r.val >> ELSE << >>, rest |-> r.rest]
    ELSE LET mid == (lo + hi) \div 2
             first == read_fields(d, lo, mid)
         IN  IF ~first.ok THEN first
             ELSE LET second == read_fields(first.rest, mid + 1, hi)
                  IN  [ok |-> second.ok, vals |-> first.vals \o second.vals,
                       rest |-> second.rest]

\* chrono's Utc.with_ymd_and_hms(..).latest(): Some exactly for a calendar date
\* and a time of day (no leap second).
IsLeap(y) == (y % 4 = 0 /\ y % 100 # 0) \/ y % 400 = 0

DaysIn(y, m) ==
    IF m = 2 THEN (IF IsLeap(y) THEN 29 ELSE 28)
    ELSE IF m \in {4, 6, 9, 11} THEN 30 ELSE 31

with_ymd_and_hms_ok(t) ==
    /\ t[2] \in 1..12
    /\ t[3] >= 1 /\ t[3] <= DaysIn(t[1], t[2])
    /\ t[4] < 24 /\ t[5] < 60 /\ t[6] < 60

\* ------------------------------------------------------------------ state
VARIABLES
    pc,           \* where read_file is: "header", "params", "rays", "done", "panicked"
    err,          \* the panic that ended it ("" while none)
    build,        \* the build profile: overflow checks are on in "debug" only
    flen,         \* the length of the input file
    file,         \* the bytes of the file looked at so far
    start_time, lat, lon, nyquist, gates, gate_res, record_item,   \* header locals
    radar,        \* silv::RadarFile {name, sweeps, params}
    sweep,        \* silv::Sweep, its rays appended in the loop
    written       \* the RadarFiles handed to silv::write

vars == << pc, err, build, flen, file, start_time, lat, lon, nyquist, gates,
           gate_res, record_item, radar, sweep, written >>

header_locals == << start_time, lat, lon, nyquist, gates, gate_res, record_item >>

\* The header-size value the assertion of line 53 accepts.
HeaderSize == 156

\* The angle-block size the check of line 199 accepts.
AngleBlockSize == 6

FileLengths == {0, 1, 100, 155} \cup (HeaderSize .. HeaderSize + MaxBody)

\* data.len(): the unread bytes of the input slice.
data_len == flen - Len(file)

data_is_empty_mut == data_len = 0 \/ Len(sweep.rays) >= 1

\* data.is_empty(), the loop's only termination test.
data_is_empty == data_len = 0

Init ==
    /\ pc = "header"
    /\ err = ""
    /\ build \in BuildProfiles
    /\ flen \in FileLengths
    /\ file = << >>
    /\ start_time = << 0, 0, 0, 0, 0, 0 >>
    /\ lat = 0 /\ lon = 0 /\ nyquist = 0
    /\ gates = 0 /\ gate_res = 0 /\ record_item = 0
    /\ radar = [name |-> "", sweeps |-> << >>, params |-> << >>]
    /\ sweep = [latitude |-> << 0, 1 >>, longitude |-> << 0, 1 >>, elevation |-> << 0, 1 >>,
                nyquist_velocity |-> << 0, 1 >>, rays |-> << >>]
    /\ written = << >>

\* A panic (unwrap of a failed read_exact, assert!, panic!, arithmetic): the
\* process ends; `seen` are the bytes of the file looked at in this step.
Panic(msg, seen) ==
    /\ pc' = "panicked"
    /\ err' = msg
    /\ file' = file \o seen
    /\ UNCHANGED << build, flen, header_locals, radar, sweep, written >>

\* Lines 52-155: the header-size assertion and the reads of every header field.
\* `first` is the read of line 53, asserted before any other field is read;
\* read_fields then walks the whole header from its first field.
ReadHeader ==
    /\ pc = "header"
    /\ \E h \in Headers :
         LET image == Take(HeaderImage(h), flen)
             first == readle(image, "u16")
         IN  IF ~first.ok THEN Panic("short read", image)
             ELSE IF first.val # HeaderSize THEN Panic("Header size is not 156", Take(image, 2))
             ELSE LET r == read_fields(image, 1, Len(HeaderFields))
                  IN  IF ~r.ok THEN Panic("short read", image)
                      ELSE /\ pc' = "params"
                           /\ file' = file \o Take(image, Len(image) - Len(r.rest))
                           /\ start_time' = [i \in 1..6 |->
                                    r.vals[FieldIndex("start_time.0") + i - 1]]
                           /\ lat' = r.vals[FieldIndex("lat")]
                           /\ lon' = r.vals[FieldIndex("lon")]
                           /\ nyquist' = r.vals[FieldIndex("nyquist")]
                           /\ gates' = r.vals[FieldIndex("gates")]
                           /\ gate_res' = r.vals[FieldIndex("gate_res")]
                           /\ record_item' = r.vals[FieldIndex("record_item")]
                           /\ UNCHANGED << err, build, flen, radar, sweep, written >>

\* record_item >> i & 1
use_bit(item, i) == (item \div (2 ^ i)) % 2

\* Lines 163-173: the nine (flag, name) pairs, in bit order; the quality
\* channel has the empty name.
all_data_types(item) ==
    << << use_bit(item, 0), "R" >>, << use_bit(item, 1), "REF" >>,
       << use_bit(item, 2), "VEL" >>, << use_bit(item, 3), "ZDR" >>,
       << use_bit(item, 4), "KDP" >>, << use_bit(item, 5), "PHI" >>,
       << use_bit(item, 6), "RHO" >>, << use_bit(item, 7), "SW" >>,
       << use_bit(item, 8), "" >> >>

\* HashMap::insert
Insert(m, k, v) == [x \in (DOMAIN m) \cup {k} |-> IF x = k THEN v ELSE m[x]]

RECURSIVE insert_params_mut(_, _, _, _)
insert_params_mut(item, res, i, params) ==
    IF i > 9 THEN params
    ELSE LET dt == all_data_types(item)[i]
         IN  IF dt[1] # 0
             THEN insert_params_mut(item, res, i + 1,
                      Insert(params, dt[2],
                             [meters_to_first_cell |-> 0, meters_between_cells |-> res]))
             ELSE insert_params_mut(item, res, i + 1, params)

RECURSIVE insert_params(_, _, _, _)
\* Lines 175-187: one ParamDescription per flagged, named data type.
insert_params(item, res, i, params) ==
    IF i > 9 THEN params
    ELSE LET dt == all_data_types(item)[i]
         IN  IF dt[1] # 0 /\ dt[2] # ""
             THEN insert_params(item, res, i + 1,
                      Insert(params, dt[2],
                             [meters_to_first_cell |-> 0, meters_between_cells |-> res]))
             ELSE insert_params(item, res, i + 1, params)

\* Lines 157-195: the RadarFile with its parameter table, and the empty sweep.
BuildParams ==
    /\ pc = "params"
    /\ radar' = [name |-> "FWLX", sweeps |-> << >>,
                 params |-> insert_params(record_item, gate_res, 1, << >>)]
    /\ sweep' = [latitude |-> << lat, 100000 >>, longitude |-> << lon, 100000 >>,
                 elevation |-> << 0, 1 >>, nyquist_velocity |-> << nyquist, 10 >>,
                 rays |-> << >>]
    /\ pc' = "rays"
    /\ UNCHANGED << err, build, flen, file, header_locals, written >>

\* ------------------------------------------------------------ the ray loop
\* use_r + use_dbz + ... + use_quality (line 223): the set bits among 0..8.
moment_count(item) ==
    use_bit(item, 0) + use_bit(item, 1) + use_bit(item, 2) + use_bit(item, 3)
      + use_bit(item, 4) + use_bit(item, 5) + use_bit(item, 6) + use_bit(item, 7)
      + use_bit(item, 8)

block_size_check_mut(observed_block_size, item, g, profile) ==
    IF observed_block_size < 2 /\ profile = "debug"
    THEN "attempt to subtract with overflow"
    ELSE IF moment_count(item) = 0 /\ observed_block_size # 2
    THEN "attempt to divide by zero"
    ELSE IF moment_count(item) # 0
            /\ (((observed_block_size + 65536 - 2) % 65536) \div moment_count(item)) \div 2 # g
    THEN "Observed block error"
    ELSE ""

\* Lines 221-227: the u16 expression (observed_block_size - 2) / count / 2 == gates.
\* The subtraction panics on overflow in a debug build and wraps in a release
\* build; the division panics when no bit is set. "" when the assertion passes.
block_size_check(observed_block_size, item, g, profile) ==
    IF observed_block_size < 2 /\ profile = "debug"
    THEN "attempt to subtract with overflow"
    ELSE IF moment_count(item) = 0
    THEN "attempt to divide by zero"
    ELSE IF (((observed_block_size + 65536 - 2) % 65536) \div moment_count(item)) \div 2 # g
    THEN "Observed block error"
    ELSE ""

RECURSIVE decode_moments(_, _, _, _, _)
\* Lines 229-240: for each flagged data type in order, read `g` raw samples,
\* scale every one of them with read_data (collect is eager, so an unknown name
\* panics as soon as there is a sample), and insert the values under the name
\* unless the name is empty.
decode_moments(d, item, g, i, data) ==
    IF i > 9 THEN [err |-> "", data |-> data, rest |-> d]
    ELSE LET dt == all_data_types(item)[i]
         IN  IF dt[1] = 0 THEN decode_moments(d, item, g, i + 1, data)
             ELSE LET raw == readle_vec(d, g)
                  IN  IF ~raw.ok THEN [err |-> "short read", data |-> data, rest |-> d]
                      ELSE IF \E j \in 1..g : read_data(raw.val[j], dt[2]).panic
                      THEN [err |-> "Unknown datatype", data |-> data, rest |-> raw.rest]
                      ELSE LET values == [j \in 1..g |-> read_data(raw.val[j], dt[2]).val]
                           IN  decode_moments(raw.rest, item, g, i + 1,
                                   IF dt[2] # "" THEN Insert(data, dt[2], values) ELSE data)

ray_azimuth_mut(azimuth, elevation) == << 90 * azimuth[2] - azimuth[1], azimuth[2] >>

\* Line 207: -elevation + 90.0; the decoded azimuth is not used.
ray_azimuth(azimuth, elevation) == << 90 * elevation[2] - elevation[1], elevation[2] >>

\* Observed-block-size values tried for a header with gate count g and k set
\* bits: 0 and 1 (the subtraction overflows), the exact size 2 + 2*g*k, its two
\* neighbours, and the first size above the range the integer division accepts.
ObservedSizes(g, k) ==
    { s \in {0, 1, 1 + 2 * g * k, 2 + 2 * g * k, 3 + 2 * g * k,
             2 + 2 * g * k + 2 * k} : s <= 65535 }

RECURSIVE Flatten(_)
\* The little-endian bytes of a sequence of u16 values.
Flatten(raws) ==
    IF raws = << >> THEN << >> ELSE to_le_bytes(Head(raws), 2) \o Flatten(Tail(raws))

\* The ray pushed at line 242.
push_ray(azimuth, elevation, data) ==
    /\ sweep' = [sweep EXCEPT !.rays =
                    Append(@, [azimuth |-> ray_azimuth(azimuth, elevation),
                               time |-> start_time, data |-> data])]

\* Lines 197-243: one iteration of `while !data.is_empty()`.
RayStep ==
    /\ pc = "rays"
    /\ ~data_is_empty
    /\ \E size \in AngleSizes, az \in AzimuthRaws, el \in ElevationRaws :
         LET angle == Take(to_le_bytes(size, 2) \o to_le_bytes(az, 2) \o to_le_bytes(el, 2),
                           data_len)
             r_size == readle(angle, "u16")
             r_az == readle(r_size.rest, "u16")
             r_el == readle(r_az.rest, "u16")
         IN  IF ~r_size.ok THEN Panic("short read", angle)
             ELSE IF r_size.val # AngleBlockSize
             THEN Panic("Angle information block size error", Take(angle, 2))
             ELSE IF ~r_az.ok \/ ~r_el.ok THEN Panic("short read", angle)
             ELSE IF ~with_ymd_and_hms_ok(start_time) THEN Panic("invalid start time", angle)
             ELSE \E obs \in ObservedSizes(gates, moment_count(record_item)) :
                    LET sized == Take(to_le_bytes(obs, 2), data_len - 6)
                        r_obs == readle(sized, "u16")
                        check == block_size_check(r_obs.val, record_item, gates, build)
                        nbytes == Min(2 * gates * moment_count(record_item), data_len - 8)
                    IN  IF ~r_obs.ok THEN Panic("short read", angle \o sized)
                        ELSE IF check # "" THEN Panic(check, angle \o sized)
                        ELSE \E raws \in [1..((nbytes + 1) \div 2) -> SampleRaws] :
                               LET body == Take(Flatten(raws), nbytes)
                                   m == decode_moments(body, record_item, gates, 1, << >>)
                               IN  IF m.err # "" THEN Panic(m.err, angle \o sized \o body)
                                   ELSE /\ push_ray(<< r_az.val, 100 >>, << r_el.val, 100 >>, m.data)
                                        /\ file' = file \o angle \o sized
                                                     \o Take(body, Len(body) - Len(m.rest))
                                        /\ UNCHANGED << pc, err, build, flen, header_locals,
                                                        radar, written >>

Finish_mut ==
    /\ pc \in {"rays", "panicked"}
    /\ written = << >>
    /\ data_is_empty \/ pc = "panicked"
    /\ radar' = [radar EXCEPT !.sweeps = Append(@, sweep)]
    /\ written' = Append(written, radar')
    /\ pc' = IF pc = "panicked" THEN pc ELSE "done"
    /\ UNCHANGED << err, build, flen, file, header_locals, sweep >>

\* Lines 245-247: after the loop, the sweep is pushed and the RadarFile written.
Finish ==
    /\ pc = "rays"
    /\ data_is_empty
    /\ radar' = [radar EXCEPT !.sweeps = Append(@, sweep)]
    /\ written' = Append(written, radar')
    /\ pc' = "done"
    /\ UNCHANGED << err, build, flen, file, header_locals, sweep >>

Next == ReadHeader \/ BuildParams \/ RayStep \/ Finish

Spec == Init /\ [][Next]_vars

TypeOK ==
    /\ pc \in {"header", "params", "rays", "done", "panicked"}
    /\ flen \in FileLengths
    /\ Len(file) <= flen
    /\ Len(written) <= 1

\* ---------------------------------------------------- reading the file back
\* The claims below are stated on the bytes of the file, read back on their own.
U16At(b, off) == b[off + 1] + 256 * b[off + 2]

K == moment_count(record_item)

\* The bytes one decoded ray block takes: the 8 bytes of the angle sub-block and
\* the observed-block-size field, and gates samples of 2 bytes per set bit.
BlockLen == 8 + 2 * gates * K

\* The header was decoded (a header that fails shows fewer than 156 bytes).
HeaderDecoded == pc \in {"params", "rays", "done"} \/ (pc = "panicked" /\ Len(file) >= HeaderSize)

\* The i-th decoded ray block of the file.
Block(i) == SubSeq(file, HeaderSize + (i - 1) * BlockLen + 1, HeaderSize + i * BlockLen)

\* What was seen of the block a panic happened in.
FailedBlock == SubSeq(file, HeaderSize + Len(sweep.rays) * BlockLen + 1, Len(file))

BitNames == << "R", "REF", "VEL", "ZDR", "KDP", "PHI", "RHO", "SW" >>

BitSet(mask, j) == (mask \div (2 ^ j)) % 2 = 1

\* The number of set bits of the mask below bit j.
Rank(mask, j) == Cardinality({ b \in 0..(j - 1) : BitSet(mask, b) })

\* The scaling law of the format, per moment name.
Law(name, v) ==
    CASE name \in {"R", "REF", "VEL", "ZDR", "KDP"} -> << v - 32768, 100 >>
      [] name = "PHI" -> << 360 * (v - 32768), 65535 >>
      [] name = "RHO" -> << 2 * (v - 1), 65534 >>
      [] name = "SW" -> << v - 1, 100 >>

\* The moment values of ray `ray` are those of block `b`.
MomentsOf(ray, b) ==
    \A j \in 0..7 :
        BitSet(record_item, j) =>
            /\ BitNames[j + 1] \in DOMAIN ray.data
            /\ Len(ray.data[BitNames[j + 1]]) = gates
            /\ \A n \in 0..(gates - 1) :
                 RatEq(ray.data[BitNames[j + 1]][n + 1],
                       Law(BitNames[j + 1],
                           U16At(b, 8 + 2 * (Rank(record_item, j) * gates + n))))

\* C1: every ray block that is decoded carries the observed block size
\* 2 + 2 * gate_count * k, k the number of set bits among 0..8: any other size
\* fails the block-size check and the ray is not decoded.
C1_OnlyExactSizeDecodes ==
    \A i \in 1..Len(sweep.rays) : U16At(Block(i), 6) = 2 + 2 * gates * K

\* A complete block with a valid angle size and the exact observed size.
WellFormed(b) ==
    /\ Len(b) = BlockLen
    /\ U16At(b, 0) = AngleBlockSize
    /\ U16At(b, 6) = 2 + 2 * gates * K

\* C2: with the quality bit set and gate_count >= 1, a correctly sized ray
\* block decodes: decoding does not fail on such a block.
C2_QualityBlockDecodes ==
    ~ ( /\ pc = "panicked"
        /\ Len(file) >= HeaderSize
        /\ BitSet(record_item, 8)
        /\ gates >= 1
        /\ with_ymd_and_hms_ok(start_time)
        /\ WellFormed(FailedBlock) )

\* C3: in every decoded ray, each named moment set in the mask maps to exactly
\* gate_count values, value i of the j-th set moment being the scaling law of
\* the little-endian u16 at offset 8 + 2*(j*gate_count + i) of the ray block;
\* REF alone with two gates and raw samples 32768, 32868 gives [0.0, 1.0].
C3_MomentValues ==
    \A i \in 1..Len(sweep.rays) :
        /\ MomentsOf(sweep.rays[i], Block(i))
        /\ ( /\ record_item = 2 /\ gates = 2
             /\ U16At(Block(i), 8) = 32768 /\ U16At(Block(i), 10) = 32868 )
           => /\ RatEq(sweep.rays[i].data["REF"][1], << 0, 1 >>)
              /\ RatEq(sweep.rays[i].data["REF"][2], << 1, 1 >>)

C3_Witness ==
    /\ pc = "done"
    /\ record_item = 2 /\ gates = 2
    /\ Len(sweep.rays) = 1
    /\ U16At(Block(1), 8) = 32768 /\ U16At(Block(1), 10) = 32868

\* C4: a decoding that fails never reaches the writer and leaves no sweep in
\* the RadarFile; a file is written only when it ends on a block boundary, and
\* when the stream ends inside a ray block the decoding fails with only the
\* complete blocks before it decoded (no ray for the partial block).
C4_NoOutputOnFailure ==
    /\ pc = "panicked" => written = << >> /\ radar.sweeps = << >>
    /\ written # << >> => pc = "done" /\ (flen - HeaderSize) % BlockLen = 0
    /\ (pc = "panicked" /\ err = "short read" /\ HeaderDecoded)
         => /\ Len(file) = flen
            /\ Len(FailedBlock) < BlockLen
            /\ Len(sweep.rays) = (flen - HeaderSize) \div BlockLen

C4_Witness ==
    /\ pc = "panicked" /\ err = "short read"
    /\ Len(sweep.rays) = 1
    /\ Len(FailedBlock) > 8

\* The file, as far as it was looked at, is a valid header followed by
\* complete well-formed ray blocks: the bytes after the header are a whole
\* number n of blocks, every block seen so far is well formed, and for n >= 1 a
\* named moment bit is set, the quality bit is clear and the start time valid.
WellFormedFile ==
    /\ HeaderDecoded
    /\ (flen - HeaderSize) % BlockLen = 0
    /\ flen > HeaderSize =>
         /\ \E j \in 0..7 : BitSet(record_item, j)
         /\ ~BitSet(record_item, 8)
         /\ with_ymd_and_hms_ok(start_time)
    /\ \A i \in 1..Len(sweep.rays) : WellFormed(Block(i))
    /\ Len(FailedBlock) >= 2 => U16At(FailedBlock, 0) = AngleBlockSize
    /\ Len(FailedBlock) >= 8 => U16At(FailedBlock, 6) = 2 + 2 * gates * K

\* C5: a valid header followed by n >= 0 complete well-formed ray blocks decodes
\* without failure; the one sweep written holds exactly n rays, the i-th the
\* decode of the i-th block, the loop ends exactly when nothing is unread, and
\* n = 0 gives a sweep without rays.
C5_WellFormedFileDecodes ==
    WellFormedFile =>
        /\ pc # "panicked"
        /\ pc = "rays" => Len(sweep.rays) * BlockLen = Len(file) - HeaderSize
        /\ pc = "done" =>
             /\ Len(file) = flen
             /\ Len(written) = 1
             /\ Len(written[1].sweeps) = 1
             /\ Len(written[1].sweeps[1].rays) = (flen - HeaderSize) \div BlockLen
             /\ \A i \in 1..Len(written[1].sweeps[1].rays) :
                  LET ray == written[1].sweeps[1].rays[i]
                  IN  /\ MomentsOf(ray, Block(i))
                      /\ DOMAIN ray.data = { BitNames[j + 1] : j \in { b \in 0..7 : BitSet(record_item, b) } }
                      /\ RatEq(ray.azimuth, << 9000 - U16At(Block(i), 4), 100 >>)
                      /\ ray.time = start_time

C5_Witness ==
    /\ pc = "done"
    /\ WellFormedFile
    /\ Len(written[1].sweeps[1].rays) = 2
    /\ Block(1) # Block(2)

\* C6: the header decodes only if the first little-endian u16 is 156; any other
\* value fails before a further field is read; and a decoded header has taken
\* exactly 156 bytes, so the first ray block starts at offset 156.
C6_HeaderIs156Bytes ==
    /\ pc \in {"params", "rays", "done"} => U16At(file, 0) = 156
    /\ pc = "params" => Len(file) = 156
    /\ (pc = "rays" /\ sweep.rays = << >>) => Len(file) = 156
    /\ (pc = "panicked" /\ Len(file) >= 2 /\ U16At(file, 0) # 156)
         => Len(file) = 2 /\ err = "Header size is not 156"

C6_Witness ==
    /\ pc = "rays"
    /\ sweep.rays = << >>
    /\ flen > Len(file)

\* C7: the azimuth of every decoded ray is 90.0 - (raw elevation field / 100),
\* whatever the raw azimuth field of its block.
C7_AzimuthFromElevation ==
    \A i \in 1..Len(sweep.rays) :
        RatEq(sweep.rays[i].azimuth, << 9000 - U16At(Block(i), 4), 100 >>)

C7_Witness ==
    /\ Len(sweep.rays) = 2
    /\ U16At(Block(1), 2) # U16At(Block(2), 2)
    /\ U16At(Block(1), 4) = 65535 /\ U16At(Block(2), 4) = 65535

\* The raw sample behind value n (from 1) of the moment at bit j, in block b.
RawAt(b, j, n) == U16At(b, 8 + 2 * (Rank(record_item, j) * gates + n - 1))

\* C8 as stated: PHI maps raw 32768 to 0.0 and raw 65535 to 359.994...
C8_PhiTopIs359 ==
    \A i \in 1..Len(sweep.rays) : \A n \in 1..gates :
        BitSet(record_item, 5) =>
            /\ RawAt(Block(i), 5, n) = 32768 => sweep.rays[i].data["PHI"][n][1] = 0
            /\ RawAt(Block(i), 5, n) = 65535 =>
                 /\ Whole(sweep.rays[i].data["PHI"][n]) = 359
                 /\ Millis(sweep.rays[i].data["PHI"][n]) = 994

\* C8, amended: PHI, computed as 360 * (v - 32768) / 65535, maps raw 32768 to
\* 0.0 and raw 65535 to 360 * 32767 / 65535 = 179.997..., just below 180.
C8_PhiTopIs179 ==
    \A i \in 1..Len(sweep.rays) : \A n \in 1..gates :
        BitSet(record_item, 5) =>
            /\ RawAt(Block(i), 5, n) = 32768 => sweep.rays[i].data["PHI"][n][1] = 0
            /\ RawAt(Block(i), 5, n) = 65535 =>
                 /\ RatEq(sweep.rays[i].data["PHI"][n], << 360 * 32767, 65535 >>)
                 /\ Whole(sweep.rays[i].data["PHI"][n]) = 179
                 /\ Millis(sweep.rays[i].data["PHI"][n]) = 997

C8_Witness ==
    /\ BitSet(record_item, 5)
    /\ gates = 2
    /\ Len(sweep.rays) = 1
    /\ RawAt(Block(1), 5, 1) = 32768
    /\ RawAt(Block(1), 5, 2) = 65535

\* The names of the set bits 0..7 of the record-item field at offset 136.
NamedMoments == { BitNames[j + 1] : j \in { b \in 0..7 : BitSet(U16At(file, 136), b) } }

\* C9: from the first ray block on, the parameter table is complete and stays
\* as it is: its keys are the names of the set bits 0..7 (never the quality
\* channel), each entry has meters_between_cells = gate_resolution (the u16 at
\* offset 104) and a zero first-cell offset, and every decoded ray has the same
\* key set.
C9_ParamTable ==
    (pc \in {"rays", "done"} \/ (pc = "panicked" /\ Len(file) >= HeaderSize)) =>
        /\ DOMAIN radar.params = NamedMoments
        /\ \A name \in DOMAIN radar.params :
             /\ radar.params[name].meters_between_cells = U16At(file, 104)
             /\ radar.params[name].meters_to_first_cell = 0
        /\ \A i \in 1..Len(sweep.rays) : DOMAIN sweep.rays[i].data = DOMAIN radar.params
        /\ \A w \in 1..Len(written) : written[w].params = radar.params

C9_Witness ==
    /\ pc = "done"
    /\ record_item = 258
    /\ Len(sweep.rays) = 2
    /\ DOMAIN written[1].params = {"REF"}

BlockSizeCheckPanics ==
    { "attempt to subtract with overflow", "attempt to divide by zero", "Observed block error" }

\* C10 as stated: with none of bits 0..8 set, a file with a ray block whose
\* angle-block size is 6 fails at the block-size check.
C10_FailsAtBlockSizeCheck ==
    ( /\ HeaderDecoded
      /\ K = 0
      /\ flen >= HeaderSize + 8
      /\ pc = "panicked"
      /\ U16At(FailedBlock, 0) = AngleBlockSize )
    => err \in BlockSizeCheckPanics

\* C10, amended: with none of bits 0..8 set, no ray is ever decoded; a file with
\* a ray block whose angle-block size is 6 fails, whatever its observed block
\* size and gate count, at the block-size check when the start timestamp is
\* valid and at the construction of the ray's time when it is not; nothing is
\* written unless no byte follows the header.
C10_NoMomentNoRay ==
    (HeaderDecoded /\ K = 0) =>
        /\ sweep.rays = << >>
        /\ pc = "done" => flen = HeaderSize
        /\ written # << >> => flen = HeaderSize
        /\ (pc = "panicked" /\ flen >= HeaderSize + 8 /\ U16At(FailedBlock, 0) = AngleBlockSize)
             => IF with_ymd_and_hms_ok(start_time)
                THEN err \in BlockSizeCheckPanics
                ELSE err = "invalid start time"

C10_Witness ==
    /\ pc = "panicked"
    /\ HeaderDecoded
    /\ K = 0 /\ gates = 0
    /\ Len(FailedBlock) = 8
    /\ U16At(FailedBlock, 6) = 2
    /\ err = "attempt to divide by zero"
====
